---- MODULE Spec2Model ----
(***************************************************************************)
(* JsonAnalyzer of src/views/json_formatter.py: the parse cascade          *)
(* (analyze_json), the error localizer (_handle_error,                     *)
(* _find_valid_json_before_position) and the line formatter                *)
(* (_create_success_lines), with json.dumps / json.loads modelled          *)
(* character by character over a small alphabet.                           *)
(***************************************************************************)
EXTENDS Integers, Sequences, FiniteSets, TLC

\* config: the analyzer's JsonAnalyzerConfig
\* text: the argument of the analyze_json call under way
\* pc: where that call stands
\* original_error: the JSONDecodeError of the strict parse, if one was kept
\* calls: the parse stages invoked so far, each with whether it gave a value
\* parsed: the local `parsed`; repaired: the local `repaired`
\* result: what the call returned or raised, once pc is "done"
\* answers: what repair_json answered for the candidates of _handle_error
\* view: the JsonFormatterView that owns the analyzer
VARIABLES config, text, pc, original_error, calls, parsed, repaired, result,
          answers, view

vars ==
    <<config, text, pc, original_error, calls, parsed, repaired, result,
      answers, view>>

(***************************************************************************)
(* Bounds of the model.                                                    *)
(***************************************************************************)
\* largest number of nodes (scalars and containers) of an input value
MaxNodes == 3
\* how many trailing characters a truncated input may have lost
MaxCut == 2

(***************************************************************************)
(* Characters. A str is a sequence of one-character strings. LS stands for *)
(* U+2028 LINE SEPARATOR, the one non-ASCII character of the alphabet.     *)
(***************************************************************************)
NL == "\n"
LS == "<U+2028>"
QUOTE == "\""
BACKSLASH == "\\"
SPACE == " "
\* the characters str.strip() removes (str.isspace), within the alphabet
Whitespace == {SPACE, NL, LS}
Digits == {"0", "1", "2", "3", "4", "5", "6", "7", "8", "9"}
\* the characters str.splitlines() breaks a line at, within the alphabet
LineBoundaries == {NL, LS}

Min(a, b) == IF a < b THEN a ELSE b
Max(a, b) == IF a > b THEN a ELSE b

RECURSIVE Spaces(_)
Spaces(n) == IF n <= 0 THEN <<>> ELSE <<SPACE>> \o Spaces(n - 1)

RECURSIVE Concat(_)
Concat(ss) == IF ss = <<>> THEN <<>> ELSE Head(ss) \o Concat(Tail(ss))

(***************************************************************************)
(* Texts handed to analyze_json. A text is its characters `body` followed  *)
(* by `pad` further space characters, so that a text longer than the size  *)
(* guard can be written down.                                              *)
(***************************************************************************)
Str(s) == [body |-> s, pad |-> 0]
TLen(t) == Len(t.body) + t.pad
\* t[i] with i counted from 0, "" past the end (s[i:i+1] in Python)
At(t, i) ==
    IF i < 0 \/ i >= TLen(t) THEN ""
    ELSE IF i < Len(t.body) THEN t.body[i + 1] ELSE SPACE
\* t[a:b]
Slice(t, a, b) ==
    LET hi == Min(Max(b, 0), TLen(t))
        lo == Min(Max(a, 0), hi)
        bhi == Min(hi, Len(t.body))
        blo == Min(lo, Len(t.body))
    IN  [body |-> SubSeq(t.body, blo + 1, bhi), pad |-> (hi - lo) - (bhi - blo)]
\* the plain characters of a text without padding
Chars(t) == t.body \o Spaces(t.pad)

RECURSIVE LStripSeq(_)
LStripSeq(s) ==
    IF s # <<>> /\ Head(s) \in Whitespace THEN LStripSeq(Tail(s)) ELSE s
RECURSIVE RStripSeq(_)
RStripSeq(s) ==
    IF s # <<>> /\ s[Len(s)] \in Whitespace
    THEN RStripSeq(SubSeq(s, 1, Len(s) - 1)) ELSE s
\* str.lstrip(), str.rstrip(), str.strip()
LStrip(t) ==
    LET s == LStripSeq(t.body)
    IN  IF s = <<>> THEN Str(<<>>) ELSE [body |-> s, pad |-> t.pad]
RStrip(t) == Str(RStripSeq(t.body))
Strip(t) == Str(RStripSeq(LStripSeq(t.body)))

(***************************************************************************)
(* JSON values (what json.loads returns and json.dumps takes). Every value *)
(* is a record of the same shape: k is its kind, n the number of an int,   *)
(* s the characters of a str, items the elements of a list or the          *)
(* [key, val] members of a dict in insertion order.                        *)
(***************************************************************************)
JNull == [k |-> "null", n |-> 0, s |-> <<>>, items |-> <<>>]
JTrue == [k |-> "true", n |-> 0, s |-> <<>>, items |-> <<>>]
JFalse == [k |-> "false", n |-> 0, s |-> <<>>, items |-> <<>>]
JInt(i) == [k |-> "int", n |-> i, s |-> <<>>, items |-> <<>>]
JStr(chars) == [k |-> "str", n |-> 0, s |-> chars, items |-> <<>>]
JArr(vs) == [k |-> "arr", n |-> 0, s |-> <<>>, items |-> vs]
JObj(members) == [k |-> "obj", n |-> 0, s |-> <<>>, items |-> members]
\* Python's None where a value is expected
NoValue == [k |-> "None", n |-> 0, s |-> <<>>, items |-> <<>>]

(***************************************************************************)
(* JsonAnalyzerConfig. indent is IndentNone for Python's None; separators  *)
(* is a record whose `set` is FALSE for Python's None.                     *)
(***************************************************************************)
IndentNone == -1
NoSeparators == [set |-> FALSE, item |-> <<>>, key |-> <<>>]
CompactSeparators == [set |-> TRUE, item |-> <<",">>, key |-> <<":">>]
max_error_context == 20
JsonAnalyzerConfig(indent, ensure_ascii, separators) ==
    [indent |-> indent, ensure_ascii |-> ensure_ascii,
     max_error_context |-> max_error_context, separators |-> separators]

(***************************************************************************)
(* json.dumps(obj, indent, ensure_ascii, separators).                      *)
(***************************************************************************)
DigitChars == <<"0", "1", "2", "3", "4", "5", "6", "7", "8", "9">>
RECURSIVE NatToStr(_)
NatToStr(n) ==
    IF n < 10 THEN <<DigitChars[n + 1]>>
    ELSE NatToStr(n \div 10) \o <<DigitChars[(n % 10) + 1]>>
IntToStr(i) == IF i < 0 THEN <<"-">> \o NatToStr(0 - i) ELSE NatToStr(i)

\* one character of a string as the encoder writes it
EscapeChar(c, ensure_ascii) ==
    IF c = QUOTE THEN <<BACKSLASH, QUOTE>>
    ELSE IF c = BACKSLASH THEN <<BACKSLASH, BACKSLASH>>
    ELSE IF c = NL THEN <<BACKSLASH, "n">>
    ELSE IF c = LS /\ ensure_ascii THEN <<BACKSLASH, "u", "2", "0", "2", "8">>
    ELSE <<c>>
EncodeString(s, ensure_ascii) ==
    <<QUOTE>> \o Concat([i \in 1..Len(s) |-> EscapeChar(s[i], ensure_ascii)])
        \o <<QUOTE>>

NewlineIndent(indent, level) ==
    IF indent = IndentNone THEN <<>> ELSE <<NL>> \o Spaces(indent * level)

RECURSIVE Encode(_, _, _, _, _, _)
RECURSIVE EncodeItems(_, _, _, _, _, _, _)
\* the members of a list (isObj false) or dict, each after the first
\* preceded by the item separator and the newline-indent
EncodeItems(items, isObj, level, indent, ensure_ascii, isep, ksep) ==
    IF items = <<>> THEN <<>>
    ELSE LET it == Head(items)
             one == IF isObj
                    THEN EncodeString(it.key, ensure_ascii) \o ksep
                             \o Encode(it.val, level, indent, ensure_ascii, isep, ksep)
                    ELSE Encode(it, level, indent, ensure_ascii, isep, ksep)
         IN  one \o (IF Tail(items) = <<>> THEN <<>>
                     ELSE isep \o NewlineIndent(indent, level)
                          \o EncodeItems(Tail(items), isObj, level, indent,
                                         ensure_ascii, isep, ksep))
Encode(v, level, indent, ensure_ascii, isep, ksep) ==
    CASE v.k = "null" -> <<"n", "u", "l", "l">>
      [] v.k = "true" -> <<"t", "r", "u", "e">>
      [] v.k = "false" -> <<"f", "a", "l", "s", "e">>
      [] v.k = "int" -> IntToStr(v.n)
      [] v.k = "str" -> EncodeString(v.s, ensure_ascii)
      [] v.k \in {"arr", "obj"} ->
           LET open == IF v.k = "arr" THEN "[" ELSE "{"
               close == IF v.k = "arr" THEN "]" ELSE "}"
           IN  IF v.items = <<>> THEN <<open, close>>
               ELSE <<open>> \o NewlineIndent(indent, level + 1)
                    \o EncodeItems(v.items, v.k = "obj", level + 1, indent,
                                   ensure_ascii, isep, ksep)
                    \o NewlineIndent(indent, level) \o <<close>>
\* json.dumps: the separators default to (", ", ": "), or to (",", ": ")
\* when indent is given
json_dumps(obj, indent, ensure_ascii, separators) ==
    LET isep == IF separators.set THEN separators.item
                ELSE IF indent # IndentNone THEN <<",">> ELSE <<",", SPACE>>
        ksep == IF separators.set THEN separators.key ELSE <<":", SPACE>>
    IN  Encode(obj, 0, indent, ensure_ascii, isep, ksep)

(***************************************************************************)
(* json.loads(text): the standard decoder (strict mode), written as its    *)
(* scanner is: scan_once, the string scanner, the object and the array     *)
(* parser. A result is [ok, val, end, msg]: on success the value and the   *)
(* index after it, on failure JSONDecodeError's msg and pos (in `end`).    *)
(* Numbers are integers: the alphabet has no fraction or exponent.         *)
(* With json5 set the same scanner is pyjson5's, for the JSON5 additions   *)
(* of the alphabet: a trailing comma, a single-quoted string, an           *)
(* unquoted key.                                                           *)
(***************************************************************************)
JsonWhitespace == {SPACE, NL}
APOSTROPHE == "'"
Letters == {"a", "b", "c", "d", "e", "f", "g", "h"}
Ok(v, e) == [ok |-> TRUE, val |-> v, end |-> e, msg |-> ""]
Fail(m, p) == [ok |-> FALSE, val |-> NoValue, end |-> p, msg |-> m]

\* the index of the first character at or after i that is no whitespace
RECURSIVE SkipWs(_, _)
SkipWs(t, i) ==
    IF i >= Len(t.body) THEN Max(i, TLen(t))
    ELSE IF t.body[i + 1] \in JsonWhitespace THEN SkipWs(t, i + 1) ELSE i

DigitVal(c) == CHOOSE d \in 0..9 : DigitChars[d + 1] = c
RECURSIVE ScanDigits(_, _, _)
\* the digits from index i on, added to the number acc
ScanDigits(t, i, acc) ==
    IF At(t, i) \in Digits
    THEN ScanDigits(t, i + 1, acc * 10 + DigitVal(At(t, i)))
    ELSE [n |-> acc, end |-> i]
\* -?(0|[1-9][0-9]*)
MatchNumber(t, idx) ==
    LET neg == At(t, idx) = "-"
        i == IF neg THEN idx + 1 ELSE idx
        c == At(t, i)
    IN  IF c = "0" THEN Ok(JInt(0), i + 1)
        ELSE IF c \in Digits
        THEN LET d == ScanDigits(t, i, 0)
             IN  Ok(JInt(IF neg THEN 0 - d.n ELSE d.n), d.end)
        ELSE Fail("Expecting value", idx)

\* the characters a backslash escape other than \u stands for
Unescaped(e) ==
    CASE e = "n" -> NL
      [] e \in {QUOTE, BACKSLASH, "/", APOSTROPHE} -> e
      [] OTHER -> ""
RECURSIVE ScanStringFrom(_, _, _, _, _)
\* the string whose opening quote q is at `begin`, read from index i on
ScanStringFrom(t, i, begin, acc, q) ==
    LET c == At(t, i)
        e == At(t, i + 1)
    IN  IF i >= Len(t.body) THEN Fail("Unterminated string starting at", begin)
        ELSE IF c = q THEN Ok(JStr(acc), i + 1)
        ELSE IF c = NL THEN Fail("Invalid control character at", i)
        ELSE IF c # BACKSLASH
        THEN ScanStringFrom(t, i + 1, begin, acc \o <<c>>, q)
        ELSE IF e = "" THEN Fail("Unterminated string starting at", begin)
        ELSE IF e = "u"
        THEN IF Slice(t, i + 2, i + 6) = Str(<<"2", "0", "2", "8">>)
             THEN ScanStringFrom(t, i + 6, begin, acc \o <<LS>>, q)
             ELSE Fail("Invalid \\uXXXX escape", i + 1)
        ELSE IF Unescaped(e) # "" /\ (e # APOSTROPHE \/ q = APOSTROPHE)
        THEN ScanStringFrom(t, i + 2, begin, acc \o <<Unescaped(e)>>, q)
        ELSE Fail("Invalid \\escape", i)
ScanString(t, end) == ScanStringFrom(t, end, end - 1, <<>>, At(t, end - 1))

RECURSIVE ScanIdentifier(_, _, _)
\* an unquoted key of JSON5, from index i on
ScanIdentifier(t, i, acc) ==
    IF At(t, i) \in Letters THEN ScanIdentifier(t, i + 1, acc \o <<At(t, i)>>)
    ELSE Ok(JStr(acc), i)

\* dict[key] = val: a repeated key keeps its place and takes the new value
RECURSIVE Put(_, _, _)
Put(members, key, val) ==
    IF members = <<>> THEN <<[key |-> key, val |-> val]>>
    ELSE IF Head(members).key = key
    THEN <<[key |-> key, val |-> val]>> \o Tail(members)
    ELSE <<Head(members)>> \o Put(Tail(members), key, val)

RECURSIVE ScanOnce(_, _, _)
RECURSIVE ObjectLoop(_, _, _, _)
RECURSIVE ArrayLoop(_, _, _, _)
\* after a ',' of a dict: JSON5 lets the dict end, otherwise the next member
ObjectAfterComma(t, members, idx, json5) ==
    IF json5 /\ At(t, idx) = "}" THEN Ok(JObj(members), idx + 1)
    ELSE ObjectLoop(t, idx, members, json5)
\* after a member of a dict: '}' or ','
ObjectEnd(t, members, idx, json5) ==
    IF At(t, idx) = "}" THEN Ok(JObj(members), idx + 1)
    ELSE IF At(t, idx) # "," THEN Fail("Expecting ',' delimiter", idx)
    ELSE ObjectAfterComma(t, members, SkipWs(t, idx + 1), json5)
\* the value v of the member named key
ObjectMember(t, key, v, members, json5) ==
    IF ~v.ok THEN v
    ELSE ObjectEnd(t, Put(members, key.val.s, v.val), SkipWs(t, v.end), json5)
\* the ':' at idx and the value after it
ObjectValue(t, key, idx, members, json5) ==
    IF At(t, idx) # ":" THEN Fail("Expecting ':' delimiter", idx)
    ELSE ObjectMember(t, key, ScanOnce(t, SkipWs(t, idx + 1), json5),
                      members, json5)
ObjectKey(t, key, members, json5) ==
    IF ~key.ok THEN key
    ELSE ObjectValue(t, key, SkipWs(t, key.end), members, json5)
\* one "key": value member at idx, then '}' or ',' and the next member
ObjectLoop(t, idx, members, json5) ==
    IF At(t, idx) = QUOTE \/ (json5 /\ At(t, idx) = APOSTROPHE)
    THEN ObjectKey(t, ScanString(t, idx + 1), members, json5)
    ELSE IF json5 /\ At(t, idx) \in Letters
    THEN ObjectKey(t, ScanIdentifier(t, idx, <<>>), members, json5)
    ELSE Fail("Expecting property name enclosed in double quotes", idx)
ObjectStart(t, idx, json5) ==
    IF At(t, idx) = "}" THEN Ok(JObj(<<>>), idx + 1)
    ELSE ObjectLoop(t, idx, <<>>, json5)
ParseObject(t, idx, json5) == ObjectStart(t, SkipWs(t, idx), json5)
\* after a ',' of a list: JSON5 lets the list end, otherwise the next element
ArrayAfterComma(t, elems, idx, json5) ==
    IF json5 /\ At(t, idx) = "]" THEN Ok(JArr(elems), idx + 1)
    ELSE ArrayLoop(t, idx, elems, json5)
\* after an element of a list: ']' or ','
ArrayEnd(t, elems, idx, json5) ==
    IF At(t, idx) = "]" THEN Ok(JArr(elems), idx + 1)
    ELSE IF At(t, idx) # "," THEN Fail("Expecting ',' delimiter", idx)
    ELSE ArrayAfterComma(t, elems, SkipWs(t, idx + 1), json5)
ArrayElement(t, v, elems, json5) ==
    IF ~v.ok THEN v
    ELSE ArrayEnd(t, elems \o <<v.val>>, SkipWs(t, v.end), json5)
\* one element at idx, then ']' or ',' and the next element
ArrayLoop(t, idx, elems, json5) ==
    ArrayElement(t, ScanOnce(t, idx, json5), elems, json5)
ArrayStart(t, idx, json5) ==
    IF At(t, idx) = "]" THEN Ok(JArr(<<>>), idx + 1)
    ELSE ArrayLoop(t, idx, <<>>, json5)
ParseArray(t, idx, json5) == ArrayStart(t, SkipWs(t, idx), json5)
ScanOnce(t, idx, json5) ==
    IF At(t, idx) = "" THEN Fail("Expecting value", idx)
    ELSE IF At(t, idx) = QUOTE \/ (json5 /\ At(t, idx) = APOSTROPHE)
    THEN ScanString(t, idx + 1)
    ELSE IF At(t, idx) = "{" THEN ParseObject(t, idx + 1, json5)
    ELSE IF At(t, idx) = "[" THEN ParseArray(t, idx + 1, json5)
    ELSE IF Slice(t, idx, idx + 4) = Str(<<"n", "u", "l", "l">>)
    THEN Ok(JNull, idx + 4)
    ELSE IF Slice(t, idx, idx + 4) = Str(<<"t", "r", "u", "e">>)
    THEN Ok(JTrue, idx + 4)
    ELSE IF Slice(t, idx, idx + 5) = Str(<<"f", "a", "l", "s", "e">>)
    THEN Ok(JFalse, idx + 5)
    ELSE MatchNumber(t, idx)
\* nothing but whitespace may follow the value: end is the index after it
DecodeEnd(t, r, end) ==
    IF end # TLen(t) THEN Fail("Extra data", end) ELSE r
DecodeValue(t, r) == IF ~r.ok THEN r ELSE DecodeEnd(t, r, SkipWs(t, r.end))
\* JSONDecoder.decode: one value between whitespace, and nothing after it
Decode(t, json5) == DecodeValue(t, ScanOnce(t, SkipWs(t, 0), json5))
json_loads(t) == Decode(t, FALSE)
\* pyjson5.loads(text): a value, or an exception (its message is not used)
pyjson5_loads(t) == Decode(t, TRUE)

(***************************************************************************)
(* JsonLine, and the line formatter _create_success_lines.                 *)
(***************************************************************************)
\* error_message: None, or the message with the position and the decoder's
\* text it embeds
NoMessage == [msg |-> "None", pos |-> 0, detail |-> ""]
Message(m) == [msg |-> m, pos |-> 0, detail |-> ""]
JsonLine(text_, level, has_error, error_message) ==
    [text |-> text_, level |-> level, has_error |-> has_error,
     error_message |-> error_message]

\* str.count(c)
Count(s, c) == Cardinality({i \in 1..Len(s) : s[i] = c})
\* the index of the first line boundary of s, 0 when it has none
FirstBoundary(s) ==
    IF \E i \in 1..Len(s) : s[i] \in LineBoundaries
    THEN CHOOSE i \in 1..Len(s) :
             /\ s[i] \in LineBoundaries
             /\ \A j \in 1..(i - 1) : s[j] \notin LineBoundaries
    ELSE 0
\* str.splitlines(): the lines without their boundaries, no empty last line
RECURSIVE splitlines(_)
splitlines(s) ==
    IF s = <<>> THEN <<>>
    ELSE LET i == FirstBoundary(s)
         IN  IF i = 0 THEN <<s>>
             ELSE <<SubSeq(s, 1, i - 1)>> \o splitlines(SubSeq(s, i + 1, Len(s)))

\* a test for a closing brace only
StartsWithBrace(s) == s # <<>> /\ Head(s) = "}"
\* str.startswith(("}", "]")) and str.endswith(("{", "["))
StartsWithCloser(s) == s # <<>> /\ Head(s) \in {"}", "]"}
EndsWithOpener(s) == s # <<>> /\ s[Len(s)] \in {"{", "["}

\* what a call returns: a list of lines, None, or an exception raised
Lines(ls) == [kind |-> "lines", lines |-> ls, exc |-> ""]
ReturnsNone == [kind |-> "None", lines |-> <<>>, exc |-> ""]
Raises(e) == [kind |-> "raise", lines |-> <<>>, exc |-> e]

\* the text a line of the formatter carries: the line as split
LineText(line) == Str(line)

RECURSIVE FormatLoop(_, _, _, _, _)
\* the loop of _create_success_lines from the line at index line_index
\* (counted from 0) on: `lines` is the buffer filled so far, of which
\* estimated_lines slots exist
FormatLoop(split, line_index, level, estimated_lines, lines) ==
    IF line_index >= Len(split) THEN Lines(lines)
    ELSE LET line == split[line_index + 1]
             stripped == LStripSeq(line)
             level1 == IF StartsWithCloser(stripped) THEN level - 1 ELSE level
             level2 == IF EndsWithOpener(stripped) THEN level1 + 1 ELSE level1
         IN  IF line_index >= estimated_lines THEN Raises("IndexError")
             ELSE FormatLoop(split, line_index + 1, level2, estimated_lines,
                             lines \o <<JsonLine(LineText(line), level1, FALSE,
                                                 NoMessage)>>)
\* the size of the preallocated buffer
EstimatedLines(formatted_json) == Count(formatted_json, NL) + 1
create_success_lines(formatted_json) ==
    FormatLoop(splitlines(formatted_json), 0, 0,
               EstimatedLines(formatted_json), <<>>)

(***************************************************************************)
(* The values and the input texts the model draws from.                    *)
(***************************************************************************)
\* the scalars that occur inside containers
InnerLeaves == {JInt(1), JStr(<<"a">>), JStr(<<LS>>)}
\* further values that occur on their own
TopScalars == {JNull, JTrue, JInt(-1), JInt(20)}
KeyLetters == <<"a", "b", "c", "d", "e", "f", "g", "h">>
\* the members of a dict whose i-th key is the i-th letter
Keyed(f) == [i \in 1..Len(f) |-> [key |-> <<KeyLetters[i]>>, val |-> f[i]]]
RECURSIVE TreesOf(_)
RECURSIVE ForestsOf(_)
\* the sequences of values with n nodes in all
ForestsOf(n) ==
    IF n = 0 THEN {<<>>}
    ELSE UNION {{<<v>> \o f : v \in TreesOf(j), f \in ForestsOf(n - j)} :
                j \in 1..n}
\* the values with exactly n nodes
TreesOf(n) ==
    IF n = 1 THEN InnerLeaves \cup {JArr(<<>>), JObj(<<>>)}
    ELSE {JArr(f) : f \in ForestsOf(n - 1)}
             \cup {JObj(Keyed(f)) : f \in ForestsOf(n - 1)}
Values == TopScalars \cup UNION {TreesOf(n) : n \in 1..MaxNodes}

\* the configurations an analyzer is constructed with or set to
IndentOptions == {IndentNone, 2, 4}
Configs ==
    {JsonAnalyzerConfig(i, ea, sep) :
        i \in IndentOptions, ea \in BOOLEAN,
        sep \in {NoSeparators, CompactSeparators}}

\* serializations of the values: compact, indented, and ASCII-only
CompactTexts == {json_dumps(v, IndentNone, FALSE, CompactSeparators) : v \in Values}
ValidTexts ==
    CompactTexts
        \cup {json_dumps(v, 2, FALSE, NoSeparators) : v \in Values}
        \cup {json_dumps(v, IndentNone, TRUE, NoSeparators) : v \in Values}
\* a serialization that lost its last characters (a missing closing brace)
TruncatedTexts ==
    {SubSeq(s, 1, Len(s) - cut) : s \in CompactTexts, cut \in 1..MaxCut}
\* a serialization with a comma before its last bracket (JSON5 only)
TrailingCommaTexts ==
    {SubSeq(s, 1, Len(s) - 1) \o <<",", s[Len(s)]>> :
        s \in {x \in CompactTexts : Len(x) > 2 /\ x[Len(x)] \in {"}", "]"}}}
\* further texts: blank, not JSON, JSON5 only, a repeated key, surrounded
\* by whitespace
OtherTexts ==
    { <<>>, <<SPACE>>, <<SPACE, NL>>,
      <<"a", "b", "c">>,
      <<"N", "U", "L", "L">>,
      <<"0", "1">>,
      <<"{", APOSTROPHE, "a", APOSTROPHE, ":", "1", "}">>,
      <<"{", "a", ":", "[", "1", "]", "}">>,
      <<"{", QUOTE, "a", QUOTE, ":", "1", ",", QUOTE, "a", QUOTE, ":", "[", "]", "}">>,
      <<"[", "1", ",", "1", ",", "{">>,
      <<"[", "1", ",", ",", "1", "]">>,
      <<"[", "1", ",", "1", ",", ",", "1", "]">>,
      <<SPACE, "[", "1", "]", NL>> }
\* the size guard of analyze_json, in characters
MaxInputSize == 10 * 1024 * 1024
\* texts padded with spaces up to the size guard and one past it
PaddedTexts ==
    {[body |-> s, pad |-> n - Len(s)] :
        s \in {<<>>, <<"[", "1", "]">>, <<"[", "1">>, <<"a", "b", "c">>},
        n \in {MaxInputSize, MaxInputSize + 1}}
Inputs ==
    {Str(s) : s \in ValidTexts \cup TruncatedTexts \cup TrailingCommaTexts
                         \cup OtherTexts}
        \cup PaddedTexts

(***************************************************************************)
(* json_repair.repair_json(text). What it makes of a text is the library's *)
(* choice; the model lets it be any of the outcomes analyze_json           *)
(* distinguishes: it raises, it returns text that is no JSON, it returns   *)
(* the empty str or an empty JSON string (for a text in which no JSON      *)
(* value starts), or it returns the serialization of a value: one the      *)
(* text completes to by closing its brackets and quotes, or else some      *)
(* value.                                                                  *)
(***************************************************************************)
RepairRaises == [kind |-> "raise", text |-> <<>>]
RepairText(s) == [kind |-> "text", text |-> s]
NotRepaired == [kind |-> "None", text |-> <<>>]
Closers == {"}", "]", QUOTE}
RECURSIVE ClosingSeqs(_)
\* the sequences of at most n closing characters
ClosingSeqs(n) ==
    IF n = 0 THEN {<<>>}
    ELSE ClosingSeqs(n - 1)
             \cup {s \o <<c>> : s \in ClosingSeqs(n - 1), c \in Closers}
Completions(t) ==
    {Str(RStrip(t).body \o suffix) : suffix \in ClosingSeqs(MaxCut)}
\* whether a JSON value starts somewhere in the text
HasJsonStart(t) ==
    \/ \E i \in 1..Len(t.body) :
          t.body[i] \in {"{", "[", QUOTE, APOSTROPHE, "-"} \cup Digits
    \/ Strip(t).body \in {<<"t", "r", "u", "e">>, <<"f", "a", "l", "s", "e">>,
                          <<"n", "u", "l", "l">>}
\* the values of a set, or some value when there is none
OrSomeValue(vs) == IF vs # {} THEN vs ELSE {JObj(<<>>)}
RepairCandidates(t) ==
    OrSomeValue({r.val : r \in {d \in {pyjson5_loads(c) : c \in Completions(t)} :
                                   d.ok}})
RepairOutcomes(t) ==
    {RepairRaises, RepairText(<<"{">>)}
        \cup IF HasJsonStart(t)
             THEN {RepairText(json_dumps(v, IndentNone, TRUE, NoSeparators)) :
                      v \in RepairCandidates(t)}
             ELSE {RepairText(<<>>), RepairText(<<QUOTE, QUOTE>>)}

(***************************************************************************)
(* analyze_json: the guards, the shape pre-check and the cascade.          *)
(***************************************************************************)
\* not text or not text.strip()
IsBlank(t) == TLen(t) = 0 \/ TLen(Strip(t)) = 0
\* a size guard that lets one character more through
TooLargeLate(t) == TLen(t) > MaxInputSize + 1
\* len(text) > 10 * 1024 * 1024
TooLarge(t) == TLen(t) > MaxInputSize

UpperLetters == <<"N", "U", "L", "T", "R", "E", "F", "A", "S">>
LowerLetters == <<"n", "u", "l", "t", "r", "e", "f", "a", "s">>
\* str.lower(), on the letters of the literals
LowerChar(c) ==
    IF \E i \in 1..Len(UpperLetters) : UpperLetters[i] = c
    THEN LowerLetters[CHOOSE i \in 1..Len(UpperLetters) : UpperLetters[i] = c]
    ELSE c
Lower(s) == [i \in 1..Len(s) |-> LowerChar(s[i])]
\* s.replace(".", "", 1)
RECURSIVE ReplaceFirstDot(_)
ReplaceFirstDot(s) ==
    IF s = <<>> THEN <<>>
    ELSE IF Head(s) = "." THEN Tail(s)
    ELSE <<Head(s)>> \o ReplaceFirstDot(Tail(s))
\* str.isdigit()
IsDigit(s) == s # <<>> /\ \A i \in 1..Len(s) : s[i] \in Digits
\* the shape pre-check, of a text that is not blank
is_potential_json(t) ==
    LET first_char == Head(LStrip(t).body)
        last_char == RStrip(t).body[Len(RStrip(t).body)]
        stripped == Strip(t).body
    IN  \/ first_char \in {"{", "["} /\ last_char \in {"}", "]"}
        \/ first_char = QUOTE /\ last_char = QUOTE
        \/ Lower(stripped) \in {<<"t", "r", "u", "e">>, <<"f", "a", "l", "s", "e">>,
                                <<"n", "u", "l", "l">>}
        \/ IsDigit(ReplaceFirstDot(stripped))

\* dump_kwargs: the compact mode drops the indent
DumpIndent(cfg) == IF cfg.separators.set THEN IndentNone ELSE cfg.indent
\* self._create_success_lines(json.dumps(parsed, **dump_kwargs))
SuccessLines(v, cfg) ==
    create_success_lines(
        json_dumps(v, DumpIndent(cfg), cfg.ensure_ascii, cfg.separators))

NoError == [set |-> FALSE, pos |-> 0, msg |-> ""]
DecodeError(r) == [set |-> TRUE, pos |-> r.end, msg |-> r.msg]
Called(stage, ok) == [stage |-> stage, ok |-> ok]

EmptyInputLine == JsonLine(Str(<<>>), 0, TRUE, Message("empty input"))
TooLargeLine == JsonLine(Str(<<>>), 0, TRUE, Message("input too large"))
UnparseableLine(t) == JsonLine(t, 0, TRUE, Message("unparseable JSON"))

(***************************************************************************)
(* _find_valid_json_before_position and _handle_error. `rep` is what       *)
(* json_repair.repair_json answers for the candidate ending at each        *)
(* index.                                                                  *)
(***************************************************************************)
NoText == [some |-> FALSE, text |-> <<>>]
SomeText(s) == [some |-> TRUE, text |-> s]
\* the comma positions of a text, counted from 0
CommaPositions(t) == {p \in 0..(Len(t.body) - 1) : t.body[p + 1] = ","}
\* the end indices of the candidates repair is tried on
CandidateEnds(t) ==
    IF CommaPositions(t) = {} THEN {TLen(t)} ELSE CommaPositions(t)
\* the answers repair_json may give for the candidates of a text
Choices(outcomes) ==
    {rep \in [DOMAIN outcomes -> UNION {outcomes[p] : p \in DOMAIN outcomes}] :
        \A p \in DOMAIN outcomes : rep[p] \in outcomes[p]}
RepairAnswers(t) ==
    Choices([p \in CandidateEnds(t) |-> RepairOutcomes(Slice(t, 0, p))])
RECURSIVE WalkCommas(_, _, _)
\* the loop over the comma positions from p down
WalkCommas(t, p, rep) ==
    IF p < 0 THEN NoText
    ELSE IF p \notin CommaPositions(t) THEN WalkCommas(t, p - 1, rep)
    ELSE IF IsBlank(Slice(t, 0, p)) THEN WalkCommas(t, p - 1, rep)
    ELSE IF rep[p].kind = "text" /\ rep[p].text # <<>> THEN SomeText(rep[p].text)
    ELSE WalkCommas(t, p - 1, rep)
find_valid_json_before_position(t, rep) ==
    IF IsBlank(t) THEN NoText
    ELSE IF CommaPositions(t) = {}
    THEN IF rep[TLen(t)].kind = "raise" THEN NoText
         ELSE SomeText(rep[TLen(t)].text)
    ELSE WalkCommas(t, Len(t.body) - 1, rep)

\* the lines of the recovered prefix: none when nothing was recovered, when
\* it does not parse or when formatting it raises
LinesOrNothing(f) == IF f.kind = "lines" THEN f.lines ELSE <<>>
FormattedPrefix(r, cfg) ==
    IF r.ok
    THEN LinesOrNothing(create_success_lines(
             json_dumps(r.val, cfg.indent, cfg.ensure_ascii, NoSeparators)))
    ELSE <<>>
PrefixLines(valid_json, cfg) ==
    IF valid_json.some /\ valid_json.text # <<>>
    THEN FormattedPrefix(json_loads(Str(valid_json.text)), cfg)
    ELSE <<>>
ErrorLine(t, error, cfg) ==
    JsonLine(Slice(t, error.pos, error.pos + cfg.max_error_context), 0, TRUE,
             [msg |-> "parse error", pos |-> error.pos, detail |-> error.msg])
\* an error handling that puts the error line first
handle_error_first(t, error, cfg, rep) ==
    LET text_before_error == Slice(t, 0, error.pos)
        valid_json == find_valid_json_before_position(text_before_error, rep)
    IN  Lines(<<ErrorLine(t, error, cfg)>> \o PrefixLines(valid_json, cfg))
handle_error(t, error, cfg, rep) ==
    LET text_before_error == Slice(t, 0, error.pos)
        valid_json == find_valid_json_before_position(text_before_error, rep)
    IN  Lines(PrefixLines(valid_json, cfg) \o <<ErrorLine(t, error, cfg)>>)

(***************************************************************************)
(* _create_list_view_controls: the row the view shows for a line.          *)
(***************************************************************************)
\* indent = " " * (line.level * 2)
RowIndent(line) == line.level * 2
\* f"{indent}{line.text}", without the error message
DisplayedRow(line) == Spaces(RowIndent(line)) \o Chars(line.text)

\* the controls that show a list of lines
Rows(lines) ==
    [i \in 1..Len(lines) |->
        [row |-> DisplayedRow(lines[i]), error |-> lines[i].has_error]]

\* self._debounce_delay = 0.2, in tenths of a second
DebounceTicks == 2
\* no _handle_error call was made
NoAnswers == [p \in {} |-> NotRepaired]
\* the view as __init__ leaves it. value: input_text.value; since: the time
\* since _last_update, in tenths of a second, as far as the debounce can
\* tell; handler: the handler that is running; json_lines, controls: the
\* output; error_visible: error_text.visible; updated, raised: whether a
\* _do_update has completed, and whether the last one took its except branch
NewView ==
    [value |-> Str(<<>>), since |-> DebounceTicks, handler |-> "none",
     json_lines |-> <<>>, controls |-> <<>>, error_visible |-> FALSE,
     updated |-> FALSE, raised |-> FALSE]

(***************************************************************************)
(* The state machine: one analyzer, one analyze_json call at a time, a     *)
(* step at each library call.                                              *)
(***************************************************************************)
Init ==
    /\ config \in Configs
    /\ text = Str(<<>>)
    /\ pc = "idle"
    /\ original_error = NoError
    /\ calls = <<>>
    /\ parsed = NoValue
    /\ repaired = NotRepaired
    /\ result = ReturnsNone
    /\ answers = NoAnswers
    /\ view = NewView

\* analyze_json with the size guard ahead of the blank guard
AnalyzeJsonSizeFirst(t) ==
    /\ pc = "idle"
    /\ text' = t
    /\ IF TooLarge(t)
       THEN pc' = "done" /\ result' = Lines(<<TooLargeLine>>)
       ELSE IF IsBlank(t)
       THEN pc' = "done" /\ result' = Lines(<<EmptyInputLine>>)
       ELSE /\ pc' = IF is_potential_json(t) THEN "strict" ELSE "lenient"
            /\ result' = ReturnsNone
    /\ UNCHANGED <<config, original_error, calls, parsed, repaired>>
\* analyze_json(t) up to the cascade: the guards and the shape pre-check
AnalyzeJson(t) ==
    /\ pc = "idle"
    /\ text' = t
    /\ IF IsBlank(t)
       THEN pc' = "done" /\ result' = Lines(<<EmptyInputLine>>)
       ELSE IF TooLarge(t)
       THEN pc' = "done" /\ result' = Lines(<<TooLargeLine>>)
       ELSE /\ pc' = IF is_potential_json(t) THEN "strict" ELSE "lenient"
            /\ result' = ReturnsNone
    /\ UNCHANGED <<config, original_error, calls, parsed, repaired>>

\* the lines of the strict parse's value, or its error kept
StrictParsed(r) ==
    /\ calls' = Append(calls, Called("strict", r.ok))
    /\ IF r.ok
       THEN /\ parsed' = r.val
            /\ result' = SuccessLines(r.val, config)
            /\ pc' = "done"
            /\ UNCHANGED original_error
       ELSE /\ original_error' = DecodeError(r)
            /\ pc' = "lenient"
            /\ UNCHANGED <<parsed, result>>
\* 1. json.loads(text); an exception other than JSONDecodeError leaves the
\* function
StrictParse ==
    /\ pc = "strict"
    /\ StrictParsed(json_loads(text))
    /\ UNCHANGED <<config, text, repaired, answers, view>>

\* the lines f of the lenient parser's value are returned, unless making
\* them raised
LenientFormatted(f) ==
    IF f.kind = "lines" THEN result' = f /\ pc' = "done"
    ELSE pc' = "repair" /\ UNCHANGED result
LenientParsed(o) ==
    /\ calls' = Append(calls, Called("lenient", o.ok))
    /\ IF o.ok
       THEN parsed' = o.val /\ LenientFormatted(SuccessLines(o.val, config))
       ELSE pc' = "repair" /\ UNCHANGED <<parsed, result>>
\* 2. pyjson5.loads(text); any exception of the try block, the formatter's
\* included, leads to the repair
LenientParse ==
    /\ pc = "lenient"
    /\ LenientParsed(pyjson5_loads(text))
    /\ UNCHANGED <<config, text, original_error, repaired, answers, view>>

\* the lines f of the repaired text's value are returned, unless making
\* them raised
RepairFormatted(f) ==
    IF f.kind = "lines" THEN result' = f /\ pc' = "done"
    ELSE pc' = "terminal" /\ UNCHANGED result
\* json.loads(repaired)
RepairParsed(r) ==
    /\ calls' = Append(calls, Called("repair", r.ok))
    /\ IF r.ok
       THEN parsed' = r.val /\ RepairFormatted(SuccessLines(r.val, config))
       ELSE pc' = "terminal" /\ UNCHANGED <<parsed, result>>
\* what follows the answer o of repair_json
Repaired(o) ==
    /\ repaired' = o
    /\ IF o.kind = "raise"
       THEN /\ calls' = Append(calls, Called("repair", FALSE))
            /\ pc' = "terminal"
            /\ UNCHANGED <<parsed, result>>
       ELSE IF o.text = <<>>
       THEN /\ calls' = Append(calls, Called("repair", FALSE))
            /\ pc' = "done"
            /\ result' = ReturnsNone
            /\ UNCHANGED parsed
       ELSE RepairParsed(json_loads(Str(o.text)))
\* 3. json_repair.repair_json(text), then json.loads(repaired); an empty
\* repaired text falls out of the try block and of the function
RepairParse ==
    /\ pc = "repair"
    /\ \E o \in RepairOutcomes(text) : Repaired(o)
    /\ UNCHANGED <<config, text, original_error, answers, view>>

\* 4. the error handling: _handle_error for the strict parse's error, or
\* one line with the whole text
TerminalFailure ==
    /\ pc = "terminal"
    /\ IF original_error.set
       THEN LET before == Slice(text, 0, original_error.pos)
            IN  \E rep \in RepairAnswers(before) :
                   \* repair_json answers the same text the same way
                   /\ \A p \in DOMAIN rep :
                         Slice(before, 0, p) = text => rep[p] = repaired
                   /\ result' = handle_error(text, original_error, config, rep)
                   /\ calls' = Append(calls, Called("handle_error", TRUE))
                   /\ answers' = rep
       ELSE /\ result' = Lines(<<UnparseableLine(text)>>)
            /\ UNCHANGED <<calls, answers>>
    /\ pc' = "done"
    /\ UNCHANGED <<config, text, original_error, parsed, repaired, view>>

\* the caller takes the result; the analyzer is ready for the next call
Return ==
    /\ pc = "done"
    /\ pc' = "idle"
    /\ text' = Str(<<>>)
    /\ original_error' = NoError
    /\ calls' = <<>>
    /\ parsed' = NoValue
    /\ repaired' = NotRepaired
    /\ result' = ReturnsNone
    /\ answers' = NoAnswers
    /\ UNCHANGED <<config, view>>

\* a caller hands the analyzer one of the input texts
Call ==
    /\ pc = "idle"
    /\ \E t \in Inputs : AnalyzeJson(t)
    /\ UNCHANGED <<answers, view>>

Next ==
    \/ Call
    \/ StrictParse
    \/ LenientParse
    \/ RepairParse
    \/ TerminalFailure
    \/ Return

Spec == Init /\ [][Next]_vars

(***************************************************************************)
(* JsonFormatterView: the user's edits of the input and of the indent      *)
(* dropdown, on_indent_change, on_input_change with its debounce, and      *)
(* _do_update, which runs the analyzer above on the input's value.         *)
(***************************************************************************)
\* the texts the user types or pastes
ViewTexts ==
    {Str(s) : s \in { <<>>, <<SPACE>>,
                      <<"[", "1", "]">>,
                      <<"[", "1", ",", "1", "]">>,
                      <<QUOTE, LS, QUOTE>>,
                      <<"a", "b", "c">>,
                      <<"[", "1">> }}
\* the values of the indent dropdown
IndentValues == {"compact", "2", "4"}
\* int(value)
IntOf(value) == IF value = "2" THEN 2 ELSE 4
\* on_indent_change: the config after the dropdown took the value
ConfigFor(value) ==
    IF value = "compact"
    THEN [config EXCEPT !.indent = IndentNone, !.separators = CompactSeparators]
    ELSE [config EXCEPT !.indent = IntOf(value), !.separators = NoSeparators]

ViewInit ==
    /\ config = JsonAnalyzerConfig(4, FALSE, NoSeparators)
    /\ text = Str(<<>>)
    /\ pc = "idle"
    /\ original_error = NoError
    /\ calls = <<>>
    /\ parsed = NoValue
    /\ repaired = NotRepaired
    /\ result = ReturnsNone
    /\ answers = NoAnswers
    /\ view = NewView

\* the user changes the input's value to t: on_change fires
UserTypes(t) ==
    /\ view.handler = "none"
    /\ t # view.value
    /\ view' = [view EXCEPT !.value = t, !.handler = "on_input_change"]
    /\ UNCHANGED <<config, text, pc, original_error, calls, parsed, repaired,
                   result, answers>>

\* the user picks another value of the dropdown: on_indent_change, up to its
\* call of on_input_change
OnIndentChange(value) ==
    /\ view.handler = "none"
    /\ ConfigFor(value) # config
    /\ config' = ConfigFor(value)
    /\ view' = [view EXCEPT
                   !.handler = IF TLen(view.value) > 0 THEN "on_input_change"
                               ELSE "none"]
    /\ UNCHANGED <<text, pc, original_error, calls, parsed, repaired, result,
                   answers>>

\* on_input_change returns at its debounce check
OnInputChangeDebounced ==
    /\ view.handler = "on_input_change"
    /\ view.since < DebounceTicks
    /\ view' = [view EXCEPT !.handler = "none"]
    /\ UNCHANGED <<config, text, pc, original_error, calls, parsed, repaired,
                   result, answers>>

\* on_input_change passes the check; _do_update clears the output and
\* returns, the value being blank
DoUpdateBlank ==
    /\ view.handler = "on_input_change"
    /\ view.since >= DebounceTicks
    /\ IsBlank(view.value)
    /\ view' = [view EXCEPT !.since = 0, !.json_lines = <<>>,
                            !.controls = <<>>, !.handler = "none",
                            !.updated = TRUE, !.raised = FALSE]
    /\ UNCHANGED <<config, text, pc, original_error, calls, parsed, repaired,
                   result, answers>>

\* on_input_change passes the check; _do_update clears the output and calls
\* analyze_json on the value
DoUpdateAnalyze ==
    /\ view.handler = "on_input_change"
    /\ view.since >= DebounceTicks
    /\ ~IsBlank(view.value)
    /\ AnalyzeJson(view.value)
    /\ view' = [view EXCEPT !.since = 0, !.json_lines = <<>>,
                            !.controls = <<>>, !.handler = "do_update"]
    /\ UNCHANGED answers

\* analyze_json is back: _do_update shows the lines, or takes its except
\* branch when analyze_json raised or when _create_list_view_controls
\* raised on None
DoUpdateRender ==
    /\ view.handler = "do_update"
    /\ pc = "done"
    /\ view' = [view EXCEPT
                   !.json_lines = IF result.kind = "lines" THEN result.lines
                                  ELSE <<>>,
                   !.controls = IF result.kind = "lines" THEN Rows(result.lines)
                                ELSE <<>>,
                   !.error_visible = IF result.kind # "lines" THEN TRUE ELSE @,
                   !.raised = result.kind # "lines",
                   !.updated = TRUE,
                   !.handler = "none"]
    /\ pc' = "idle"
    /\ text' = Str(<<>>)
    /\ original_error' = NoError
    /\ calls' = <<>>
    /\ parsed' = NoValue
    /\ repaired' = NotRepaired
    /\ result' = ReturnsNone
    /\ answers' = NoAnswers
    /\ UNCHANGED config

\* a tenth of a second passes with no event
Tick ==
    /\ view.handler = "none"
    /\ view.since < DebounceTicks
    /\ view' = [view EXCEPT !.since = @ + 1]
    /\ UNCHANGED <<config, text, pc, original_error, calls, parsed, repaired,
                   result, answers>>

\* the user edits the input
TypeInput ==
    /\ view.handler = "none"
    /\ \E t \in ViewTexts : UserTypes(t)
\* the user picks a value of the indent dropdown
SelectIndent ==
    /\ view.handler = "none"
    /\ \E value \in IndentValues : OnIndentChange(value)

ViewNext ==
    \/ TypeInput
    \/ SelectIndent
    \/ OnInputChangeDebounced
    \/ DoUpdateBlank
    \/ DoUpdateAnalyze
    \/ StrictParse
    \/ LenientParse
    \/ RepairParse
    \/ TerminalFailure
    \/ DoUpdateRender
    \/ Tick

ViewSpec == ViewInit /\ [][ViewNext]_vars

(***************************************************************************)
(* The properties.                                                         *)
(***************************************************************************)
\* a text of whitespace only (the empty text included)
AllWhitespace(t) == \A i \in 1..Len(t.body) : t.body[i] \in Whitespace
\* the call has returned a list of lines to its caller
ReturnedLines == pc = "done" /\ result.kind = "lines"
\* a line list with a line flagged as an error
HasErrorLine(ls) == \E i \in 1..Len(ls) : ls[i].has_error
\* exactly one line, flagged, at level 0, with the message m
OneErrorLine(r, m) ==
    /\ r.kind = "lines"
    /\ Len(r.lines) = 1
    /\ r.lines[1].has_error
    /\ r.lines[1].level = 0
    /\ r.lines[1].error_message.msg = m
\* the stages invoked so far in the call
StagesCalled == {calls[i].stage : i \in 1..Len(calls)}

\* C1: whatever the input and whatever the stages do, analyze_json returns
\* a non-empty list of lines: it neither raises nor returns without a list.
C1_AlwaysReturnsLines ==
    pc = "done" => (result.kind = "lines" /\ Len(result.lines) >= 1)

\* C2: for a serialization of a valid JSON value (within the size guard),
\* under every config, analyze_json returns lines none of which is flagged
\* as an error.
C2_ValidJsonNoErrorLine ==
    (pc = "done" /\ ~AllWhitespace(text) /\ TLen(text) <= MaxInputSize
        /\ json_loads(text).ok)
        => (result.kind = "lines" /\ ~HasErrorLine(result.lines))

\* the text is a serialized object that lost its closing brace
MissingClosingBrace(t) ==
    /\ t.pad = 0
    /\ \E s \in CompactTexts :
          /\ s[Len(s)] = "}"
          /\ t.body = SubSeq(s, 1, Len(s) - 1)
\* C3: for an input whose only defect is a missing closing brace,
\* analyze_json returns at least one line flagged as an error, and the
\* lines of a recovered prefix come before it.
C3_MissingBraceErrorLine ==
    (pc = "done" /\ MissingClosingBrace(text))
        => /\ result.kind = "lines"
           /\ Len(result.lines) >= 1
           /\ result.lines[Len(result.lines)].has_error
           /\ \A i \in 1..(Len(result.lines) - 1) : ~result.lines[i].has_error

\* C4 as stated: for any input above the size guard, analyze_json returns
\* exactly one error line with the oversize message and invokes no parse
\* stage.
C4_OversizeAnyInput ==
    TLen(text) > MaxInputSize
        => /\ pc = "done"
           /\ OneErrorLine(result, "input too large")
           /\ calls = <<>>
\* C4 amended: for any input above the size guard that is not empty or
\* whitespace-only, analyze_json returns exactly one error line with the
\* oversize message and invokes no parse stage.
C4_OversizeNonBlank ==
    (TLen(text) > MaxInputSize /\ ~AllWhitespace(text))
        => /\ pc = "done"
           /\ OneErrorLine(result, "input too large")
           /\ calls = <<>>
C4_Witness ==
    /\ pc = "done"
    /\ text = [body |-> <<"[", "1", "]">>, pad |-> MaxInputSize - 2]
    /\ OneErrorLine(result, "input too large")
    /\ calls = <<>>

\* C5: for an empty or whitespace-only input, analyze_json returns exactly
\* one line, flagged as an error, at level 0, with the empty-input message,
\* and invokes no parse stage.
C5_BlankInput ==
    AllWhitespace(text)
        => /\ pc \in {"idle", "done"}
           /\ calls = <<>>
           /\ pc = "done" => OneErrorLine(result, "empty input")
C5_Witness ==
    /\ pc = "done"
    /\ text = Str(<<SPACE, NL>>)
    /\ OneErrorLine(result, "empty input")
    /\ calls = <<>>

\* C6: every result of _handle_error has a line flagged as an error; it is
\* the last line, and no line before it (the formatted prefix) is flagged.
C6_ErrorLineLast ==
    (pc = "done" /\ "handle_error" \in StagesCalled)
        => /\ result.kind = "lines"
           /\ Len(result.lines) >= 1
           /\ result.lines[Len(result.lines)].has_error
           /\ \A i \in 1..(Len(result.lines) - 1) : ~result.lines[i].has_error
C6_Witness ==
    /\ pc = "done"
    /\ "handle_error" \in StagesCalled
    /\ Len(result.lines) >= 2
    /\ result.lines[Len(result.lines)].has_error

\* the lines the formatter made: those not flagged as an error
FormatterLines == SelectSeq(result.lines, LAMBDA line : ~line.has_error)
\* the line ends with an opening bracket; it starts with a closing one
Opens(ls, i) ==
    LET s == Chars(ls[i].text) IN s # <<>> /\ s[Len(s)] \in {"{", "["}
Closes(ls, i) ==
    LET s == Chars(ls[i].text)
    IN  \E n \in 1..Len(s) :
           /\ s[n] \in {"}", "]"}
           /\ \A m \in 1..(n - 1) : s[m] \in Whitespace
\* the brackets opened from line i on and still open after line k
Net(ls, i, k) ==
    Cardinality({m \in i..k : Opens(ls, m)})
        - Cardinality({m \in (i + 1)..k : Closes(ls, m)})
\* line j closes the bracket that line i opened
Matches(ls, i, j) ==
    /\ i < j
    /\ Opens(ls, i)
    /\ Closes(ls, j)
    /\ Net(ls, i, j) = 0
    /\ \A k \in (i + 1)..(j - 1) : Net(ls, i, k) >= 1
\* C7: in the lines the formatter makes of serializer output (indented
\* output in particular), a line that closes a bracket has the level of the
\* line that opened it, every line between the two has a level at least one
\* greater, the first line has level 0 and no level is negative.
C7_LevelsMatchBrackets ==
    (ReturnedLines /\ FormatterLines # <<>>)
        => LET ls == FormatterLines
           IN  /\ ls[1].level = 0
               /\ \A i \in 1..Len(ls) : ls[i].level >= 0
               /\ \A i \in 1..Len(ls) : \A j \in (i + 1)..Len(ls) :
                     Matches(ls, i, j)
                         => /\ ls[j].level = ls[i].level
                            /\ \A k \in (i + 1)..(j - 1) :
                                  ls[k].level >= ls[i].level + 1
C7_Witness ==
    /\ ReturnedLines
    /\ DumpIndent(config) # IndentNone
    /\ LET ls == FormatterLines
       IN  /\ Len(ls) >= 5
           /\ \E i \in 1..Len(ls) : ls[i].level = 2
           /\ \E i \in 2..Len(ls) : \E j \in (i + 1)..Len(ls) :
                 Matches(ls, i, j) /\ Chars(ls[j].text)[Len(Chars(ls[j].text))] = "]"

\* the number of spaces a row starts with
LeadingSpaces(s) ==
    IF \E n \in 1..Len(s) : s[n] # SPACE
    THEN (CHOOSE n \in 1..Len(s) :
              s[n] # SPACE /\ \A m \in 1..(n - 1) : s[m] = SPACE) - 1
    ELSE Len(s)
\* C8: the text of a line made by the formatter carries no leading
\* indentation, so that the indent the view derives from the level is the
\* only indentation of the displayed row.
C8_NoIndentationInText ==
    ReturnedLines
        => \A i \in 1..Len(result.lines) :
              ~result.lines[i].has_error
                  => /\ LeadingSpaces(Chars(result.lines[i].text)) = 0
                     /\ LeadingSpaces(DisplayedRow(result.lines[i]))
                            = RowIndent(result.lines[i])

\* no parse stage of the call yielded a value, and the repair was reached
AllStrategiesFailed ==
    /\ "repair" \in StagesCalled
    /\ \A i \in 1..Len(calls) :
          calls[i].stage \in {"strict", "lenient", "repair"} => ~calls[i].ok
\* C9: when every strategy fails to yield a value, the outcome depends only
\* on the strict parse's error: with one, the result is the output of
\* _handle_error for that error; without one, it is exactly one error line
\* whose text is the whole input.
C9_TerminalFailureOutcome ==
    (pc = "done" /\ AllStrategiesFailed)
        => IF original_error.set
           THEN /\ "handle_error" \in StagesCalled
                /\ result.kind = "lines"
                /\ Len(result.lines) >= 1
                /\ result.lines[Len(result.lines)]
                       = ErrorLine(text, original_error, config)
           ELSE /\ OneErrorLine(result, "unparseable JSON")
                /\ result.lines[1].text = text

StageIndex(stage) ==
    CASE stage = "strict" -> 1
      [] stage = "lenient" -> 2
      [] stage = "repair" -> 3
      [] OTHER -> 4
\* C10: the stages run in the order strict, lenient, repair and the first
\* success wins: the lenient parser runs only if the strict parse failed or
\* was skipped, the repair runs only if the lenient parser failed, the
\* lines returned are those of the first value a stage yielded, and a
\* failed shape pre-check skips the strict parse only.
C10_CascadeOrder ==
    /\ \A i \in 1..Len(calls) : \A j \in (i + 1)..Len(calls) :
          StageIndex(calls[i].stage) < StageIndex(calls[j].stage)
    /\ \A i \in 1..Len(calls) :
          calls[i].stage = "lenient" => \A j \in 1..(i - 1) : ~calls[j].ok
    /\ \A i \in 1..Len(calls) :
          calls[i].stage = "repair"
              => \E j \in 1..(i - 1) : calls[j] = Called("lenient", FALSE)
    /\ (pc = "done" /\ \E i \in 1..Len(calls) :
                          calls[i].ok /\ calls[i].stage # "handle_error")
          => result = SuccessLines(parsed, config)
    /\ (pc \notin {"idle", "strict"} /\ ~AllWhitespace(text)
            /\ TLen(text) <= MaxInputSize /\ ~is_potential_json(text))
          => /\ "strict" \notin StagesCalled
             /\ pc = "done" => "lenient" \in StagesCalled

\* the text before the error of the strict parse
TextBeforeError == Slice(text, 0, original_error.pos)
\* _handle_error has run on a text with commas before the error
WalkedCommas ==
    /\ pc = "done"
    /\ "handle_error" \in StagesCalled
    /\ CommaPositions(TextBeforeError) # {}
\* the candidate ending at the comma at p was repaired into text that
\* json.loads parses
Recoverable(p) ==
    /\ ~IsBlank(Slice(TextBeforeError, 0, p))
    /\ answers[p].kind = "text"
    /\ answers[p].text # <<>>
    /\ json_loads(Str(answers[p].text)).ok
\* the longest candidate of a set of comma positions
Longest(ps) == CHOOSE p \in ps : \A q \in ps : q <= p
\* the lines of a result before its last line
LinesBeforeLast(r) == SubSeq(r.lines, 1, Len(r.lines) - 1)
\* C11: when some candidate of the comma walk repairs into text that
\* strict-parses, the result holds the formatted lines of the longest such
\* candidate before its error line, even if a longer candidate repaired
\* into non-empty text that does not strict-parse.
C11_LongestParsingCandidate ==
    (WalkedCommas /\ \E p \in CommaPositions(TextBeforeError) : Recoverable(p))
        => LinesBeforeLast(result)
               = FormattedPrefix(
                     json_loads(Str(answers[Longest(
                         {p \in CommaPositions(TextBeforeError) :
                             Recoverable(p)})].text)),
                     config)

\* the value _handle_error recovered: that of the text the walk returned
RecoveredValue ==
    json_loads(Str(find_valid_json_before_position(TextBeforeError,
                                                   answers).text)).val
\* C12: under every config, the lines _handle_error emits for a recovered
\* value are the lines analyze_json emits for that value on its success
\* path under the same config.
C12_PrefixSerializedAsSuccess ==
    (pc = "done" /\ "handle_error" \in StagesCalled /\ Len(result.lines) >= 2)
        => Lines(LinesBeforeLast(result)) = SuccessLines(RecoveredValue, config)

\* the serializer output the formatter was given for the value parsed
FormatterInput ==
    json_dumps(parsed, DumpIndent(config), config.ensure_ascii,
               config.separators)
\* C13: in _create_success_lines the write index stays below the size of
\* the preallocated buffer: for every serializer output, splitting it into
\* lines yields at most (number of "\n" + 1) lines, also when a string
\* value holds a line separator other than "\n" that is left unescaped.
C13_BufferLargeEnough ==
    parsed # NoValue
        => Len(splitlines(FormatterInput)) <= EstimatedLines(FormatterInput)

\* no handler runs and the debounce delay has passed since the last update
Quiescent == view.handler = "none" /\ view.since >= DebounceTicks
\* the lines analyze_json gives for the input's value under the current
\* config, the value being blank (nothing is shown) or valid JSON
AnalysisOfInput ==
    IF IsBlank(view.value) THEN <<>>
    ELSE SuccessLines(json_loads(view.value).val, config).lines
\* C14: after any sequence of input changes and indent changes, once no
\* further event arrives the displayed lines are the analysis of the current
\* input text under the current config: the debounce check of
\* on_input_change drops no change for good, the re-format asked by
\* on_indent_change included.
C14_DisplayFollowsInput ==
    (Quiescent /\ (IsBlank(view.value) \/ json_loads(view.value).ok))
        => view.json_lines = AnalysisOfInput
\* C15: after every completed _do_update the error_text banner is visible
\* if and only if that update raised: a later update that succeeds, or that
\* clears the output for a blank input, leaves the banner hidden.
C15_BannerIffRaised ==
    (view.handler = "none" /\ view.updated)
        => (view.error_visible <=> view.raised)

====
